---- MODULE Spec2Model ----
(***************************************************************************)
(* Backup / restore endpoints of the site (src/src/endpoints/backup.js,    *)
(* and the earlier revision of the same module in src/unnamed/part_000).   *)
(*                                                                         *)
(* Strings are sequences of tokens.  A token is a run of characters that   *)
(* contains none of '.', '/', '\' and no white space, or it is exactly one *)
(* of those characters; so String.includes, startsWith, endsWith and trim  *)
(* are computed on the token sequence exactly as on the characters.        *)
(***************************************************************************)
EXTENDS Integers, Sequences, FiniteSets, TLC

\* ------------------------------------------------------------------ bounds
MaxOps == 2
MaxEdits == 1
MaxElapse == 2

\* ----------------------------------------------------------- string helpers
Includes(s, sub) ==
    \E i \in 1..(Len(s) - Len(sub) + 1) : SubSeq(s, i, i + Len(sub) - 1) = sub

StartsWith(s, pre) ==
    Len(s) >= Len(pre) /\ SubSeq(s, 1, Len(pre)) = pre

EndsWith(s, suf) ==
    Len(s) >= Len(suf) /\ SubSeq(s, Len(s) - Len(suf) + 1, Len(s)) = suf

IsSpace(tok) == tok \in {" ", "\n"}

RECURSIVE TrimStart(_)
TrimStart(s) ==
    IF s # <<>> /\ IsSpace(Head(s)) THEN TrimStart(Tail(s)) ELSE s

RECURSIVE TrimEnd(_)
TrimEnd(s) ==
    IF s # <<>> /\ IsSpace(s[Len(s)]) THEN TrimEnd(SubSeq(s, 1, Len(s) - 1)) ELSE s

Trim(s) == TrimEnd(TrimStart(s))

\* segments of a path string, split at the '/' tokens
RECURSIVE SplitPath(_)
SplitPath(p) ==
    IF \A i \in 1..Len(p) : p[i] # "/"
    THEN <<p>>
    ELSE LET k == CHOOSE i \in 1..Len(p) :
                      p[i] = "/" /\ \A j \in 1..(i - 1) : p[j] # "/"
         IN <<SubSeq(p, 1, k - 1)>> \o SplitPath(SubSeq(p, k + 1, Len(p)))

\* -------------------------------------------------------------- constants
BACKUPS_DIR == <<"_site_backups">>
CONFIG_YAML == <<"config", ".", "yaml">>
ZIP_EXT == <<".", "zip">>
CONFIRM_RESTORE == "CONFIRM_RESTORE"

WHITELIST ==
    { BACKUPS_DIR, <<".", "git">>, <<"node_modules">>,
      <<"package", ".", "json">>, <<"package-lock", ".", "json">>,
      CONFIG_YAML, <<"config">>, <<"public">>, <<"src">> }

\* new Date().toISOString().replace(/[:.]/g, '-'): one name per millisecond
Timestamp(t) == ToString(t)

SiteBackupName(t) == <<"site-backup-", Timestamp(t)>> \o ZIP_EXT
PreRestoreName(t) == <<"pre-restore-", Timestamp(t)>> \o ZIP_EXT

\* filename.includes('..') || filename.includes('/') || filename.includes('\\')
NoBackslashCheck(f) == Includes(f, <<".", ".">>) \/ Includes(f, <<"/">>)
IsTraversalUnsafe(f) ==
    Includes(f, <<".", ".">>) \/ Includes(f, <<"/">>) \/ Includes(f, <<"\\">>)

\* !req.user || !req.user.profile || !req.user.profile.admin
Users == {"none", "noprofile", "user", "admin"}
IsAdmin(u) == u = "admin"

\* ------------------------------------------------------------------- YAML
\* yaml.parse on the documents of the model: a blank document is null, an
\* unterminated flow mapping throws, "key: value" is a mapping, "- item" is
\* a sequence (typeof 'object' as well), anything else is a scalar.
YamlParse(s) ==
    LET t == Trim(s) IN
    IF t = <<>> THEN [throws |-> FALSE, kind |-> "null"]
    ELSE IF Head(t) = "{" /\ t[Len(t)] # "}" THEN [throws |-> TRUE, kind |-> "null"]
    ELSE IF Len(t) >= 2 /\ t[2] = ":" THEN [throws |-> FALSE, kind |-> "object"]
    ELSE IF Head(t) = "-" THEN [throws |-> FALSE, kind |-> "object"]
    ELSE [throws |-> FALSE, kind |-> "scalar"]

\* the check of the extraction loop: non-empty after trim, parses, and
\* parsed && typeof parsed === 'object'
IsValidConfig(content) ==
    /\ Len(Trim(content)) > 0
    /\ ~YamlParse(content).throws
    /\ YamlParse(content).kind = "object"

DocA == <<"port", ":", " ", "8000">>
DocB == <<"port", ":", " ", "9000">>
DocDefault == <<"port", ":", " ", "default">>
DocBlank == <<" ", "\n">>
DocBad == <<"{", "port">>

\* ------------------------------------------------------------- file system
SubNames == { <<"f">> }

NoFile == [exists |-> FALSE, data |-> <<>>]
FileOf(c) == [exists |-> TRUE, data |-> c]

EmptySub == [s \in SubNames |-> NoFile]
NoNode == [kind |-> "none", data |-> <<>>, sub |-> EmptySub]
FileNode(c) == [kind |-> "file", data |-> c, sub |-> EmptySub]
DirNode(m) == [kind |-> "dir", data |-> <<>>, sub |-> m]

A_TXT == <<"a", ".", "txt">>
USERS == <<"users">>
PUBLIC == <<"public">>
BAK == <<"_site_backups", ".", "bak">>

\* immediate children of DATA_ROOT other than the Backup Store, in the
\* order readdirSync lists them
RootOrder == << BAK, A_TXT, CONFIG_YAML, PUBLIC, USERS >>
TopNames == { RootOrder[i] : i \in 1..Len(RootOrder) }

V1 == <<"v1">>
V2 == <<"v2">>

\* ------------------------------------------------------------------- state
VARIABLES
    now,          \* the clock, in milliseconds
    edits,        \* changes the host application has made to the Data Root
    ops,          \* archive-producing requests accepted so far
    storeExists,  \* DATA_ROOT/_site_backups exists
    store,        \* the files of the Backup Store, by filename
    dataRoot,     \* the other immediate children of DATA_ROOT
    cfgPrimary,   \* cwd/config.yaml
    cfgDir,       \* cwd/config/config.yaml
    cfgDefault,   \* cwd/default/config.yaml
    cs,           \* the create request in flight
    rs,           \* the restore request in flight
    last,         \* the last response of a handler that answers at once
    swept,        \* history: the latest cleanup, and whether it repeated the one before
    strays        \* files extraction wrote above DATA_ROOT or below a directory of the Backup Store

vars == << now, edits, ops, storeExists, store, dataRoot, cfgPrimary, cfgDir,
           cfgDefault, cs, rs, last, swept, strays >>

fsVars == << storeExists, store, dataRoot, cfgPrimary, cfgDir, cfgDefault >>

\* ----------------------------------------------------------------- archives
FileEntry(p, c) == [path |-> p, type |-> "File", data |-> c]

\* A file of the Backup Store: closed when the zip is complete, with the
\* entries of the zip.  origin is history, not data of the file: the Data
\* Root as it was when the archiver read it.
NoOrigin == [n \in TopNames |-> NoNode]

\* A time is whole days and the milliseconds of the day; the requests of one
\* run fall on day 0, and the archives found at start-up are of earlier days.
MsPerDay == 24 * 60 * 60 * 1000
TimeOf(d, ms) == [day |-> d, ms |-> ms]

\* an output file just opened by fs.createWriteStream: present, but no zip yet
OpenFile == [closed |-> FALSE, entries |-> <<>>, origin |-> NoOrigin,
             mtime |-> TimeOf(0, now)]
ClosedZip(es, root) == [closed |-> TRUE, entries |-> es, origin |-> root,
                        mtime |-> TimeOf(0, now)]

\* stats.size: the zip of n entries is longer than the empty zip, and a file
\* that was opened and not written yet is empty
FileSize(file) == IF file.closed THEN Len(file.entries) + 1 ELSE 0

\* what one queued archive.file / archive.directory call contributes when
\* the archiver reads the entry from disk
EntriesOf(root, q) ==
    IF q.dir
    THEN IF root[q.name].sub[<<"f">>].exists
         THEN << FileEntry(q.name \o <<"/">> \o <<"f">>, root[q.name].sub[<<"f">>].data) >>
         ELSE << >>
    ELSE << FileEntry(q.name, root[q.name].data) >>

\* the archiver emits 'error' when a queued entry is no longer what it was
Readable(root, q) == root[q.name].kind = (IF q.dir THEN "dir" ELSE "file")

RECURSIVE ReadQueue(_, _)
ReadQueue(root, queue) ==
    IF queue = <<>> THEN <<>>
    ELSE EntriesOf(root, Head(queue)) \o ReadQueue(root, Tail(queue))

\* for (const entry of fs.readdirSync(dataRoot)) { skip ...; statSync; queue }
RECURSIVE Enumerate(_, _, _)
Enumerate(root, names, skip) ==
    IF names = <<>> THEN <<>>
    ELSE LET n == Head(names)
             rest == Enumerate(root, Tail(names), skip)
         IN IF root[n].kind = "none" \/ n \in skip THEN rest
            ELSE << [name |-> n, dir |-> root[n].kind = "dir"] >> \o rest

\* the entries create skips: the Backup Store and the config mirrors
CreateSkip == { BACKUPS_DIR, <<"config">>, CONFIG_YAML }
\* the entries the pre-restore snapshot skips
SnapshotSkip == { BACKUPS_DIR }

\* ---------------------------------------------------------------- requests
\* the values of req.body.clearData: the booleans or a string
ClearValues == {"true", "false", "'true'"}
\* the values of req.body.confirmRestore
ConfirmValues == {CONFIRM_RESTORE, "confirm_restore", "undefined"}

NoReq == [filename |-> <<>>, confirmRestore |-> "undefined", clearData |-> "false"]

\* listed is history: what list would have returned when the request arrived
CsIdle == [pc |-> "idle", filename |-> <<>>, queue |-> <<>>, config |-> NoFile,
           status |-> 0, size |-> 0, listed |-> {}]

\* what the request found when it arrived (history)
NoBefore == [root |-> NoOrigin, primary |-> NoFile, dir |-> NoFile]

RsIdle == [pc |-> "idle", req |-> NoReq, pre |-> <<>>, snap |-> "none",
           queue |-> <<>>, files |-> <<>>, origin |-> NoOrigin, idx |-> 0,
           status |-> 0, preRestoreBackup |-> <<>>, before |-> NoBefore,
           failed |-> {}]

NoResponse == [op |-> "none", status |-> 0, filename |-> <<>>]

\* no cleanup yet: days is never 0 once parsed
NoSweep == [days |-> 0, at |-> 0, ok |-> FALSE, again |-> FALSE]

InitRoot(mirror) ==
    [n \in TopNames |->
        IF n = CONFIG_YAML THEN mirror
        ELSE IF n \in {PUBLIC, USERS} THEN DirNode([s \in SubNames |-> FileOf(V1)])
        ELSE FileNode(V1)]

Init ==
    /\ now = 0
    /\ edits = 0
    /\ ops = 0
    /\ storeExists = FALSE
    /\ store = << >>
    /\ \/ /\ dataRoot = InitRoot(FileNode(DocB))
          /\ cfgPrimary \in {NoFile, FileOf(DocA), FileOf(DocBlank), FileOf(DocBad)}
          /\ cfgDefault \in {NoFile, FileOf(DocDefault)}
       \/ /\ dataRoot = [InitRoot(FileNode(DocB)) EXCEPT ![A_TXT] = NoNode]
          /\ cfgPrimary = FileOf(DocA)
          /\ cfgDefault = FileOf(DocDefault)
    /\ cfgDir = NoFile
    /\ cs = CsIdle
    /\ rs = RsIdle
    /\ last = NoResponse
    /\ swept = NoSweep
    /\ strays = {}

\* A handler that has answered holds its response until it is delivered; the
\* event loop takes up the next event after that.
Quiet ==
    /\ last.op = "none"
    /\ cs.pc \notin {"done", "crashed"}
    /\ rs.pc \notin {"done", "crashed"}

\* --------------------------------------------------------------- the clock
\* The clock only names files.  A millisecond that names no file, stored or
\* being written, is like the next one, so time is let pass once the
\* present millisecond is in a name.
StampInUse ==
    \/ \E f \in DOMAIN store : f \in {SiteBackupName(now), PreRestoreName(now)}
    \/ cs.pc # "idle" /\ cs.filename = SiteBackupName(now)
    \/ rs.pc # "idle" /\ rs.pre = PreRestoreName(now)

Tick ==
    /\ Quiet
    /\ StampInUse
    /\ now' = now + 1
    /\ UNCHANGED << strays, swept, edits, ops, fsVars, cs, rs, last >>

\* the host application changes a file of the Data Root
EnvEdit ==
    /\ Quiet
    /\ rs.pc = "idle"
    /\ edits < MaxEdits
    /\ edits' = edits + 1
    /\ \E n \in {A_TXT, BAK} :
       \E node \in {FileNode(V2), NoNode, DirNode(EmptySub)} :
          /\ node # dataRoot[n]
          /\ n = BAK => node.kind = "file"
          /\ dataRoot' = [dataRoot EXCEPT ![n] = node]
    /\ UNCHANGED << strays, swept, now, ops, storeExists, store, cfgPrimary, cfgDir, cfgDefault, cs, rs, last >>

\* the operator edits cwd/config.yaml by hand
EnvEditConfig ==
    /\ Quiet
    /\ rs.pc = "idle"
    /\ edits < MaxEdits
    /\ edits' = edits + 1
    /\ \E c \in {DocA, DocBad} :
          /\ cfgPrimary # FileOf(c)
          /\ cfgPrimary' = FileOf(c)
    /\ UNCHANGED << strays, swept, now, ops, storeExists, store, dataRoot, cfgDir, cfgDefault, cs, rs, last >>

\* the response of a synchronous handler is delivered
Deliver ==
    /\ last.op # "none"
    /\ last' = NoResponse
    /\ UNCHANGED << strays, swept, now, edits, ops, fsVars, cs, rs >>

\* ----------------------------------------------------------- requireAdmin
\* the routes of the router
Routes == {"create", "list", "download", "delete", "restore", "cleanup"}

\* requireAdmin with only `if (!req.user)`: a caller with a user and no
\* administrator's profile is passed on, here to the handler of list
RejectsOnlyMissingUser(u) ==
    /\ Quiet
    /\ ~IsAdmin(u)
    /\ IF u = "none"
       THEN /\ \E route \in Routes :
                  last' = [op |-> "requireAdmin", status |-> 403, filename |-> <<>>,
                           user |-> u, route |-> route]
            /\ UNCHANGED storeExists
       ELSE /\ storeExists' = TRUE
            /\ last' = [op |-> "list", status |-> 200, filename |-> <<>>,
                        user |-> u, route |-> "list"]
    /\ UNCHANGED << strays, swept, now, edits, ops, store, dataRoot, cfgPrimary, cfgDir,
                    cfgDefault, cs, rs >>

\* router.use(requireAdmin): 403 whatever the route, and no handler runs
RequireAdminReject(u) ==
    /\ Quiet
    /\ ~IsAdmin(u)
    /\ \E route \in Routes :
          last' = [op |-> "requireAdmin", status |-> 403, filename |-> <<>>,
                   user |-> u, route |-> route]
    /\ UNCHANGED << strays, swept, now, edits, ops, fsVars, cs, rs >>

\* getBackupsDir(): creates the directory when it is missing
GetBackupsDir == storeExists' = TRUE

\* fs.createWriteStream(path): creates the file, or truncates an existing one
CreateWriteStream(st, name) ==
    [f \in (DOMAIN st) \cup {name} |-> IF f = name THEN OpenFile ELSE st[f]]

\* -------------------------------------------------------------------- list
\* files.filter(file => file.endsWith('.zip')).map(...): the sort puts the
\* entries in the order of created, latest first
ListBackups(st) ==
    { [filename |-> f, size |-> FileSize(st[f]), created |-> st[f].mtime] :
        f \in { g \in DOMAIN st : EndsWith(g, ZIP_EXT) } }

List ==
    /\ Quiet
    /\ GetBackupsDir
    /\ last' = [op |-> "list", status |-> 200, filename |-> << >>,
                backups |-> ListBackups(store)]
    /\ UNCHANGED << strays, swept, now, edits, ops, store, dataRoot, cfgPrimary, cfgDir, cfgDefault, cs, rs >>

\* ------------------------------------------------------------------ create
\* the synchronous part of the handler, up to await archive.finalize()
CreateBegin ==
    /\ Quiet
    /\ cs.pc = "idle"
    /\ LET filename == SiteBackupName(now) IN
       /\ ops < MaxOps
       /\ ops' = ops + 1
       /\ GetBackupsDir
       /\ store' = CreateWriteStream(store, filename)
       /\ cs' = [CsIdle EXCEPT
                   !.pc = "writing",
                   !.filename = filename,
                   !.listed = ListBackups(store),
                   !.queue = Enumerate(dataRoot, RootOrder, CreateSkip),
                   !.config = IF cfgPrimary.exists /\ Len(Trim(cfgPrimary.data)) > 0
                              THEN cfgPrimary ELSE NoFile]
    /\ UNCHANGED << strays, swept, now, edits, dataRoot, cfgPrimary, cfgDir, cfgDefault, rs, last >>

\* the archiver reads the queued entries, the output stream closes, and the
\* handler resumes: statSync(outputPath), res.json
CreateFinish ==
    /\ Quiet
    /\ cs.pc = "writing"
    /\ \A i \in 1..Len(cs.queue) : Readable(dataRoot, cs.queue[i])
    /\ LET es == ReadQueue(dataRoot, cs.queue) \o
                 (IF cs.config.exists THEN << FileEntry(CONFIG_YAML, cs.config.data) >>
                  ELSE << >>)
       IN /\ store' = [f \in DOMAIN store |->
                          IF f = cs.filename THEN ClosedZip(es, dataRoot) ELSE store[f]]
          /\ cs' = [cs EXCEPT !.pc = "done",
                              !.status = IF cs.filename \in DOMAIN store THEN 200 ELSE 500,
                              !.size = IF cs.filename \in DOMAIN store THEN Len(es) + 1 ELSE 0]
    /\ UNCHANGED << strays, swept, now, edits, ops, storeExists, dataRoot, cfgPrimary, cfgDir, cfgDefault, rs, last >>

\* archive.on('error'): the promise rejects and the catch answers 500
CreateFail ==
    /\ Quiet
    /\ cs.pc = "writing"
    /\ cs' = [cs EXCEPT !.pc = "done", !.status = 500]
    /\ UNCHANGED << strays, swept, now, edits, ops, fsVars, rs, last >>

\* The output stream fails (the disk is full).  Its 'error' has no listener
\* but the one pipe() put there, which emits it again: an uncaught exception.
\* The process dies of it, or, where the host handles uncaughtException,
\* lives on with 'close' never emitted and archiveFinished never settled.
OutputFailures == {"crashed", "hung"}

CreateOutputFail ==
    /\ Quiet
    /\ cs.pc = "writing"
    /\ \E outcome \in OutputFailures : cs' = [cs EXCEPT !.pc = outcome]
    /\ UNCHANGED << strays, swept, now, edits, ops, fsVars, rs, last >>

CreateReturn ==
    /\ cs.pc = "done"
    /\ cs' = CsIdle
    /\ UNCHANGED << strays, swept, now, edits, ops, fsVars, rs, last >>

\* ------------------------------------------------------- download, delete
Download(f) ==
    /\ Quiet
    /\ IF IsTraversalUnsafe(f)
       THEN /\ last' = [op |-> "download", status |-> 400, filename |-> f]
            /\ UNCHANGED storeExists
       ELSE /\ GetBackupsDir
            /\ last' = [op |-> "download", filename |-> f,
                        status |-> IF f \in DOMAIN store THEN 200 ELSE 404]
    /\ UNCHANGED << strays, swept, now, edits, ops, store, dataRoot, cfgPrimary, cfgDir, cfgDefault, cs, rs >>

Delete(f) ==
    /\ Quiet
    /\ IF IsTraversalUnsafe(f)
       THEN /\ last' = [op |-> "delete", status |-> 400, filename |-> f]
            /\ UNCHANGED << storeExists, store >>
       ELSE /\ GetBackupsDir
            /\ IF f \in DOMAIN store
               THEN /\ store' = [g \in (DOMAIN store) \ {f} |-> store[g]]
                    /\ last' = [op |-> "delete", status |-> 200, filename |-> f]
               ELSE /\ UNCHANGED store
                    /\ last' = [op |-> "delete", status |-> 404, filename |-> f]
    /\ UNCHANGED << strays, swept, now, edits, ops, dataRoot, cfgPrimary, cfgDir, cfgDefault, cs, rs >>

\* ----------------------------------------------------------------- cleanup
\* req.body.days: absent, or a number
NoDays == [given |-> FALSE, n |-> 0]
DaysOf(n) == [given |-> TRUE, n |-> n]
DaysValues == { NoDays, DaysOf(0), DaysOf(30), DaysOf(36500), DaysOf(0 - 1) }

\* parseInt(req.body.days) || 30: NaN and 0 are falsy
KeepsZeroDays(d) == IF d.given THEN d.n ELSE 30
ParseDays(d) == IF ~d.given \/ d.n = 0 THEN 30 ELSE d.n

\* now - stat.mtimeMs > days * 24 * 60 * 60 * 1000, on times of whole days
\* and milliseconds of the day
ExpiresAtCutoff(t, mtime, days) ==
    LET dd == t.day - mtime.day - days
        dms == t.ms - mtime.ms
    IN dd > 0 \/ (dd = 0 /\ dms >= 0)
Expired(t, mtime, days) ==
    LET dd == t.day - mtime.day - days
        dms == t.ms - mtime.ms
    IN dd > 0 \/ (dd = 0 /\ dms > 0)

RECURSIVE ReleasedBytes(_, _)
ReleasedBytes(st, names) ==
    IF names = {} THEN 0
    ELSE LET f == CHOOSE g \in names : TRUE
         IN FileSize(st[f]) + ReleasedBytes(st, names \ {f})

\* the loop left at the first file it deletes
CleanupStopsAtFirst(d) ==
    /\ Quiet
    /\ GetBackupsDir
    /\ LET days == ParseDays(d)
           expired == { f \in DOMAIN store :
                          /\ EndsWith(f, ZIP_EXT)
                          /\ Expired(TimeOf(0, now), store[f].mtime, days) }
       IN /\ \E deleted \in SUBSET expired :
                /\ Cardinality(deleted) = (IF expired = {} THEN 0 ELSE 1)
                /\ store' = [f \in (DOMAIN store) \ deleted |-> store[f]]
                /\ last' = [op |-> "cleanup", status |-> 200, filename |-> << >>,
                            days |-> d,
                            deletedCount |-> Cardinality(deleted),
                            releasedBytes |-> ReleasedBytes(store, deleted)]
          /\ swept' = [days |-> days, at |-> now, ok |-> TRUE,
                       again |-> swept.ok /\ swept.days = days]
    /\ UNCHANGED << strays, now, edits, ops, dataRoot, cfgPrimary, cfgDir, cfgDefault, cs, rs >>

\* The loop unlinks every expired archive; an unlinkSync that throws ends
\* the handler in its catch, with the files unlinked so far gone.
Cleanup(d) ==
    /\ Quiet
    /\ GetBackupsDir
    /\ LET days == ParseDays(d)
           expired == { f \in DOMAIN store :
                          /\ EndsWith(f, ZIP_EXT)
                          /\ Expired(TimeOf(0, now), store[f].mtime, days) }
       IN \E deleted \in SUBSET expired :
             /\ store' = [f \in (DOMAIN store) \ deleted |-> store[f]]
             /\ last' = IF deleted = expired
                        THEN [op |-> "cleanup", status |-> 200, filename |-> << >>,
                              days |-> d,
                              deletedCount |-> Cardinality(deleted),
                              releasedBytes |-> ReleasedBytes(store, deleted)]
                        ELSE [op |-> "cleanup", status |-> 500, filename |-> << >>,
                              days |-> d]
             /\ swept' = [days |-> days, at |-> now, ok |-> deleted = expired,
                          again |-> swept.ok /\ swept.days = days]
    /\ UNCHANGED << strays, now, edits, ops, dataRoot, cfgPrimary, cfgDir, cfgDefault, cs, rs >>

\* time passes between two requests
Elapse ==
    /\ Quiet
    /\ now < MaxElapse
    /\ now' = now + 1
    /\ UNCHANGED << strays, swept, edits, ops, fsVars, cs, rs, last >>

\* the archives found in the Backup Store at start-up, written by earlier
\* runs, and a file that is no archive
OldNames ==
    { <<"site-backup-", "2024-01-01", ".", "zip">>,
      <<"pre-restore-", "2024-01-02", ".", "zip">>,
      <<"notes", ".", "txt">> }
OldTimes == { TimeOf(0 - 31, 0), TimeOf(0 - 30, 1), TimeOf(0, 0) }
OldFile(t) == [closed |-> TRUE, entries |-> << >>, origin |-> NoOrigin, mtime |-> t]

InitCleanup ==
    /\ now = 0
    /\ edits = 0
    /\ ops = 0
    /\ storeExists = TRUE
    /\ \E names \in SUBSET OldNames : store \in [names -> { OldFile(t) : t \in OldTimes }]
    /\ dataRoot = InitRoot(FileNode(DocB))
    /\ cfgPrimary = FileOf(DocA)
    /\ cfgDir = NoFile
    /\ cfgDefault = FileOf(DocDefault)
    /\ cs = CsIdle
    /\ rs = RsIdle
    /\ last = NoResponse
    /\ swept = NoSweep
    /\ strays = {}

\* ----------------------------------------------------------------- restore
\* the filenames a request can carry: '' (or absent), unsafe names, the name
\* of no archive, and the names in the Backup Store
BadNames == { <<".", ".">>, <<"x", "/", "y">>, <<"x", "\\", "y">> }
MissingName == SiteBackupName(MaxOps + 1)

\* Requests that change nothing (an unsafe or unknown filename, a missing
\* confirmation, a caller who is no administrator) are drawn while no create
\* or restore is in flight; requests naming a file of the Backup Store are
\* drawn at every point.
NothingInFlight == cs.pc = "idle" /\ rs.pc = "idle"
ProbeNames == IF NothingInFlight THEN BadNames \cup {MissingName} ELSE {}
RequestNames == ProbeNames \cup DOMAIN store
Callers == IF NothingInFlight THEN Users ELSE {"admin"}

\* the restore requests: every clearData with a confirmed request for a
\* stored archive, and every kind of filename with every confirmRestore
RestoreInputs ==
    { [filename |-> f, confirmRestore |-> CONFIRM_RESTORE, clearData |-> cl] :
        f \in DOMAIN store, cl \in ClearValues }
    \cup
    { [filename |-> f, confirmRestore |-> c, clearData |-> "true"] :
        f \in ProbeNames \cup (IF NothingInFlight THEN {<< >>} \cup DOMAIN store ELSE {}),
        c \in ConfirmValues }

Before == [root |-> dataRoot, primary |-> cfgPrimary, dir |-> cfgDir]

RestoreAnswer(req, status) ==
    [RsIdle EXCEPT !.pc = "done", !.req = req, !.status = status, !.before = Before]

\* if (!filename) ...; if (confirmRestore !== 'CONFIRM_RESTORE') ...;
\* if (filename.includes('..') || ...) ...: each answers 400
IgnoresConfirm(f, c) == f = << >> \/ IsTraversalUnsafe(f)
InvalidRequest(f, c) ==
    f = << >> \/ c # CONFIRM_RESTORE \/ IsTraversalUnsafe(f)

\* the catch of the handler: res.status(500).json({ error })
RestoreCaught(r) == [r EXCEPT !.pc = "done", !.status = 500]

\* the handler without `if (!fs.existsSync(backupPath))`
RestoreWithoutResolve(f, c, cl) ==
    /\ Quiet
    /\ rs.pc = "idle"
    /\ LET req == [filename |-> f, confirmRestore |-> c, clearData |-> cl] IN
       IF InvalidRequest(f, c)
       THEN /\ rs' = RestoreAnswer(req, 400)
            /\ UNCHANGED << ops, storeExists, store >>
       ELSE LET pre == PreRestoreName(now) IN
            /\ GetBackupsDir
            /\ ops < MaxOps
            /\ ops' = ops + 1
            /\ store' = CreateWriteStream(store, pre)
            /\ rs' = [RsIdle EXCEPT
                        !.pc = "snapshot",
                        !.req = req,
                        !.pre = pre,
                        !.snap = "open",
                        !.before = Before,
                        !.queue = Enumerate(dataRoot, RootOrder, SnapshotSkip)]
    /\ UNCHANGED << strays, swept, now, edits, dataRoot, cfgPrimary, cfgDir, cfgDefault, cs, last >>

\* validation, resolve, and the synchronous part of the pre-restore
\* snapshot, up to await preArchive.finalize()
RestoreBegin(f, c, cl) ==
    /\ Quiet
    /\ rs.pc = "idle"
    /\ LET req == [filename |-> f, confirmRestore |-> c, clearData |-> cl] IN
       IF InvalidRequest(f, c)
       THEN /\ rs' = RestoreAnswer(req, 400)
            /\ UNCHANGED << ops, storeExists, store >>
       ELSE /\ GetBackupsDir
            /\ IF f \notin DOMAIN store
               THEN /\ rs' = RestoreAnswer(req, 404)
                    /\ UNCHANGED << ops, store >>
               ELSE LET pre == PreRestoreName(now) IN
                    /\ ops < MaxOps
                    /\ ops' = ops + 1
                    /\ store' = CreateWriteStream(store, pre)
                    /\ rs' = [RsIdle EXCEPT
                                !.pc = "snapshot",
                                !.req = req,
                                !.pre = pre,
                                !.snap = "open",
                                !.before = Before,
                                !.queue = Enumerate(dataRoot, RootOrder, SnapshotSkip)]
    /\ UNCHANGED << strays, swept, now, edits, dataRoot, cfgPrimary, cfgDir, cfgDefault, cs, last >>

\* the archiver reads the queued entries and preOutput closes
SnapshotClose ==
    /\ Quiet
    /\ rs.pc = "snapshot"
    /\ \A i \in 1..Len(rs.queue) : Readable(dataRoot, rs.queue[i])
    /\ store' = [f \in DOMAIN store |->
                    IF f = rs.pre THEN ClosedZip(ReadQueue(dataRoot, rs.queue), dataRoot)
                    ELSE store[f]]
    /\ rs' = [rs EXCEPT !.pc = "clear", !.snap = "closed"]
    /\ UNCHANGED << strays, swept, now, edits, ops, storeExists, dataRoot, cfgPrimary, cfgDir, cfgDefault, cs, last >>

\* preArchive.on('error', reject): the handler's catch answers 500
SnapshotFail ==
    /\ Quiet
    /\ rs.pc = "snapshot"
    /\ rs' = RestoreCaught([rs EXCEPT !.snap = "failed"])
    /\ UNCHANGED << strays, swept, now, edits, ops, fsVars, cs, last >>

\* preOutput fails: as for the output stream of create
SnapshotOutputFail ==
    /\ Quiet
    /\ rs.pc = "snapshot"
    /\ \E outcome \in OutputFailures : rs' = [rs EXCEPT !.pc = outcome, !.snap = "failed"]
    /\ UNCHANGED << strays, swept, now, edits, ops, fsVars, cs, last >>

\* if (req.body.clearData === true): rmSync of every child not in WHITELIST;
\* an rmSync that throws is caught and the loop goes on
ClearTargets(root) == { n \in TopNames : root[n].kind # "none" /\ n \notin WHITELIST }
\* a clear loop that removes nothing
ClearLoopSkipped(root, failed) == root

ClearLoop(root, failed) ==
    [n \in TopNames |-> IF n \in ClearTargets(root) \ failed THEN NoNode ELSE root[n]]

\* the clear loop run without awaiting preArchiveFinished
ClearWithoutAwait ==
    /\ Quiet
    /\ rs.pc \in {"snapshot", "clear"}
    /\ IF rs.req.clearData = "true"
       THEN dataRoot' = ClearLoop(dataRoot, {})
       ELSE UNCHANGED dataRoot
    /\ rs' = [rs EXCEPT !.pc = "open"]
    /\ UNCHANGED << strays, swept, now, edits, ops, storeExists, store, cfgPrimary, cfgDir, cfgDefault, cs, last >>

\* the clear loop without its try/catch: the first rmSync that throws ends
\* the handler in its catch
ClearAbortsOnFailure ==
    /\ Quiet
    /\ rs.pc = "clear"
    /\ IF rs.req.clearData = "true"
       THEN \E failed \in {{}} \cup {{n} : n \in ClearTargets(dataRoot)} :
               IF failed = {}
               THEN /\ dataRoot' = ClearLoop(dataRoot, {})
                    /\ rs' = [rs EXCEPT !.pc = "open"]
               ELSE /\ UNCHANGED dataRoot
                    /\ rs' = RestoreCaught(rs)
       ELSE /\ UNCHANGED dataRoot
            /\ rs' = [rs EXCEPT !.pc = "open"]
    /\ UNCHANGED << strays, swept, now, edits, ops, storeExists, store, cfgPrimary, cfgDir, cfgDefault, cs, last >>

RestoreClear ==
    /\ Quiet
    /\ rs.pc = "clear"
    /\ IF rs.req.clearData = "true"
       THEN \E failed \in {{}} \cup {{n} : n \in ClearTargets(dataRoot)} :
               /\ dataRoot' = ClearLoop(dataRoot, failed)
               /\ rs' = [rs EXCEPT !.pc = "open", !.failed = failed]
       ELSE /\ UNCHANGED dataRoot
            /\ rs' = [rs EXCEPT !.pc = "open"]
    /\ UNCHANGED << strays, swept, now, edits, ops, storeExists, store, cfgPrimary, cfgDir, cfgDefault, cs, last >>

\* unzipper.Open.file(backupPath): throws unless the file is a complete zip
RestoreOpen ==
    /\ Quiet
    /\ rs.pc = "open"
    /\ IF rs.req.filename \in DOMAIN store /\ store[rs.req.filename].closed
       THEN LET files == store[rs.req.filename].entries IN
            rs' = [rs EXCEPT !.files = files, !.idx = 1,
                             !.origin = store[rs.req.filename].origin,
                             !.pc = IF files = << >> THEN "guard" ELSE "extract"]
       ELSE rs' = RestoreCaught(rs)
    /\ UNCHANGED << strays, swept, now, edits, ops, fsVars, cs, last >>

\* fs.mkdirSync(path.dirname(targetPath), { recursive: true }) when the
\* directory of the target does not exist
MkTargetDir(root, segs) ==
    IF Len(segs) = 2 /\ root[segs[1]].kind = "none"
    THEN [root EXCEPT ![segs[1]] = DirNode(EmptySub)]
    ELSE root

\* fs.writeFileSync(path.join(dataRoot, file.path), fileBuffer): EISDIR when
\* the target is a directory, ENOTDIR when its parent is a file
WriteThrows(root, segs) ==
    IF Len(segs) = 1 THEN root[segs[1]].kind = "dir"
    ELSE root[segs[1]].kind # "dir"

WriteData(root, segs, data) ==
    IF Len(segs) = 1
    THEN [root EXCEPT ![segs[1]] = FileNode(data)]
    ELSE [root EXCEPT ![segs[1]].sub[segs[2]] = FileOf(data)]

\* file.path.startsWith(BACKUPS_DIR)
SkipsEntry(p) == StartsWith(p, BACKUPS_DIR)

\* path.join(dataRoot, file.path), relative to DATA_ROOT: '' and '.' segments
\* are dropped and a '..' segment takes back the segment before it, or
\* climbs one level above DATA_ROOT when there is none
RECURSIVE JoinSegs(_, _, _)
JoinSegs(segs, stack, up) ==
    IF segs = << >> THEN [up |-> up, segs |-> stack]
    ELSE LET s == Head(segs) IN
         IF s = << >> \/ s = <<".">>
         THEN JoinSegs(Tail(segs), stack, up)
         ELSE IF s = <<".", ".">>
         THEN IF stack = << >>
              THEN JoinSegs(Tail(segs), stack, up + 1)
              ELSE JoinSegs(Tail(segs), SubSeq(stack, 1, Len(stack) - 1), up)
         ELSE JoinSegs(Tail(segs), Append(stack, s), up)

JoinDataRoot(p) == JoinSegs(SplitPath(p), << >>, 0)

\* the target is DATA_ROOT itself or the Backup Store directory
IsDirectoryTarget(t) == t.up = 0 /\ t.segs \in { << >>, << BACKUPS_DIR >> }
\* the target is a file of the Backup Store
IsStoreTarget(t) == t.up = 0 /\ Len(t.segs) = 2 /\ t.segs[1] = BACKUPS_DIR
\* the target is above DATA_ROOT, or below a directory of the Backup Store
\* that the mkdirSync before the write creates
IsStrayTarget(t) == t.up > 0 \/ (Len(t.segs) > 2 /\ t.segs[1] = BACKUPS_DIR)

\* fs.writeFileSync on a file of the Backup Store: the bytes of the entry,
\* which are no zip
WriteStore(st, name) ==
    [f \in DOMAIN st \cup {name} |-> IF f = name THEN OpenFile ELSE st[f]]

\* one round of the extraction loop
RestoreExtract ==
    /\ Quiet
    /\ rs.pc = "extract"
    /\ LET e == rs.files[rs.idx]
           target == JoinDataRoot(e.path)
           segs == target.segs
           next == [rs EXCEPT !.idx = rs.idx + 1,
                              !.pc = IF rs.idx = Len(rs.files) THEN "guard" ELSE "extract"]
           gone == rs.req.filename \notin DOMAIN store \/ ~store[rs.req.filename].closed
       IN
       IF SkipsEntry(e.path)
       THEN /\ rs' = next
            /\ UNCHANGED << dataRoot, cfgPrimary, cfgDir, store, strays >>
       ELSE IF e.path = CONFIG_YAML
       THEN /\ UNCHANGED << store, strays >>
            /\ IF e.type = "Directory"
               THEN /\ rs' = next
                    /\ UNCHANGED << dataRoot, cfgPrimary, cfgDir >>
               ELSE IF gone
               THEN /\ rs' = RestoreCaught(rs)
                    /\ UNCHANGED << dataRoot, cfgPrimary, cfgDir >>
               ELSE IF ~IsValidConfig(e.data)
               THEN /\ rs' = next
                    /\ UNCHANGED << dataRoot, cfgPrimary, cfgDir >>
               ELSE /\ cfgPrimary' = FileOf(e.data)
                    /\ IF dataRoot[CONFIG_YAML].kind = "dir"
                       THEN /\ rs' = RestoreCaught(rs)
                            /\ UNCHANGED << dataRoot, cfgDir >>
                       ELSE /\ dataRoot' = [dataRoot EXCEPT ![CONFIG_YAML] = FileNode(e.data)]
                            /\ cfgDir' = FileOf(e.data)
                            /\ rs' = next
       ELSE IF IsDirectoryTarget(target) \/ IsStoreTarget(target) \/ IsStrayTarget(target)
       THEN /\ UNCHANGED << dataRoot, cfgPrimary, cfgDir >>
            /\ IF e.type = "Directory"
               THEN /\ rs' = next
                    /\ UNCHANGED << store, strays >>
               ELSE IF gone \/ IsDirectoryTarget(target)
               THEN /\ rs' = RestoreCaught(rs)
                    /\ UNCHANGED << store, strays >>
               ELSE IF IsStoreTarget(target)
               THEN /\ store' = WriteStore(store, segs[2])
                    /\ rs' = next
                    /\ UNCHANGED strays
               ELSE /\ strays' = strays \cup { [up |-> target.up, segs |-> segs, data |-> e.data] }
                    /\ rs' = next
                    /\ UNCHANGED store
       ELSE LET made == MkTargetDir(dataRoot, segs) IN
            /\ UNCHANGED << cfgPrimary, cfgDir, store, strays >>
            /\ IF e.type = "Directory"
               THEN /\ dataRoot' = made
                    /\ rs' = next
               ELSE IF gone \/ WriteThrows(made, segs)
               THEN /\ dataRoot' = made
                    /\ rs' = RestoreCaught(rs)
               ELSE /\ dataRoot' = WriteData(made, segs, e.data)
                    /\ rs' = next
    /\ UNCHANGED << swept, now, edits, ops, storeExists, cfgDefault, cs, last >>

\* the handler is an ES module (import ... from at its top), where require
\* is not defined: require('yaml') throws a ReferenceError
RequireDefined == FALSE

\* isConfigValid() of the post-restore check; every throw inside its try
\* block, the ReferenceError included, is caught and returns false
IsConfigValid(file) ==
    /\ file.exists
    /\ Len(Trim(file.data)) # 0
    /\ RequireDefined
    /\ ~YamlParse(file.data).throws
    /\ YamlParse(file.data).kind = "object"

\* the post-restore check of config.yaml and the success response
RestoreGuard ==
    /\ Quiet
    /\ rs.pc = "guard"
    /\ cfgPrimary' = IF ~IsConfigValid(cfgPrimary) /\ cfgDefault.exists
                     THEN FileOf(cfgDefault.data)
                     ELSE cfgPrimary
    /\ rs' = [rs EXCEPT !.pc = "done", !.status = 200, !.preRestoreBackup = rs.pre]
    /\ UNCHANGED << strays, swept, now, edits, ops, storeExists, store, dataRoot, cfgDir, cfgDefault, cs, last >>

\* the response has been delivered
RestoreReturn ==
    /\ rs.pc = "done"
    /\ rs' = RsIdle
    /\ UNCHANGED << strays, swept, now, edits, ops, fsVars, cs, last >>

\* ------------------------------------------ the earlier revision (part_000)
\* create of the earlier revision: only the Backup Store is skipped, and
\* cwd/config.yaml is queued with archive.file, to be read by the archiver
LegacySkip == { BACKUPS_DIR }

LegacyCreateBegin ==
    /\ Quiet
    /\ cs.pc = "idle"
    /\ LET filename == SiteBackupName(now) IN
       /\ ops < MaxOps
       /\ ops' = ops + 1
       /\ GetBackupsDir
       /\ store' = CreateWriteStream(store, filename)
       /\ cs' = [CsIdle EXCEPT
                   !.pc = "writing",
                   !.filename = filename,
                   !.listed = ListBackups(store),
                   !.queue = Enumerate(dataRoot, RootOrder, LegacySkip),
                   !.config = [exists |-> cfgPrimary.exists, data |-> << >>]]
    /\ UNCHANGED << strays, swept, now, edits, dataRoot, cfgPrimary, cfgDir, cfgDefault, rs, last >>

LegacyCreateFinish ==
    /\ Quiet
    /\ cs.pc = "writing"
    /\ \A i \in 1..Len(cs.queue) : Readable(dataRoot, cs.queue[i])
    /\ cs.config.exists => cfgPrimary.exists
    /\ LET es == ReadQueue(dataRoot, cs.queue) \o
                 (IF cs.config.exists THEN << FileEntry(CONFIG_YAML, cfgPrimary.data) >>
                  ELSE << >>)
       IN /\ store' = [f \in DOMAIN store |->
                          IF f = cs.filename THEN ClosedZip(es, dataRoot) ELSE store[f]]
          /\ cs' = [cs EXCEPT !.pc = "done",
                              !.status = IF cs.filename \in DOMAIN store THEN 200 ELSE 500,
                              !.size = IF cs.filename \in DOMAIN store THEN Len(es) + 1 ELSE 0]
    /\ UNCHANGED << strays, swept, now, edits, ops, storeExists, dataRoot, cfgPrimary, cfgDir, cfgDefault, rs, last >>

\* for (const entry of entries) rmSync(entry): the entries listed before the
\* snapshot, whatever req.body.clearData is, and with no try around rmSync:
\* the k-th rmSync may throw, which ends the handler in its catch
RECURSIVE RemoveAll(_, _)
RemoveAll(root, queue) ==
    IF queue = << >> THEN root
    ELSE RemoveAll([root EXCEPT ![Head(queue).name] = NoNode], Tail(queue))

LegacyRestoreClear ==
    /\ Quiet
    /\ rs.pc = "clear"
    /\ \E k \in 0..Len(rs.queue) :
          /\ dataRoot' = RemoveAll(dataRoot, SubSeq(rs.queue, 1, k))
          /\ rs' = IF k = Len(rs.queue) THEN [rs EXCEPT !.pc = "open"]
                   ELSE RestoreCaught(rs)
    /\ UNCHANGED << strays, swept, now, edits, ops, storeExists, store, cfgPrimary, cfgDir, cfgDefault, cs, last >>

\* unzipper.Extract({ path: dataRoot }): every entry is written under the
\* Data Root, config.yaml included, until a write fails
RECURSIVE ExtractAll(_, _)
ExtractAll(root, files) ==
    IF files = << >> THEN [root |-> root, ok |-> TRUE]
    ELSE LET e == Head(files)
             segs == SplitPath(e.path)
             made == MkTargetDir(root, segs)
         IN IF e.type = "Directory" THEN ExtractAll(made, Tail(files))
            ELSE IF WriteThrows(made, segs) THEN [root |-> made, ok |-> FALSE]
            ELSE ExtractAll(WriteData(made, segs, e.data), Tail(files))

\* the stream of the archive piped into the extractor; a file that is gone
\* fails the read stream, which nothing listens to: no answer is sent
LegacyRestoreExtract ==
    /\ Quiet
    /\ rs.pc = "open"
    /\ rs.req.filename \in DOMAIN store
    /\ IF store[rs.req.filename].closed
       THEN LET files == store[rs.req.filename].entries
                out == ExtractAll(dataRoot, files)
            IN /\ dataRoot' = out.root
               /\ rs' = IF out.ok
                        THEN [rs EXCEPT !.pc = "done", !.status = 200,
                                        !.files = files,
                                        !.origin = store[rs.req.filename].origin,
                                        !.preRestoreBackup = rs.pre]
                        ELSE RestoreCaught(rs)
       ELSE /\ rs' = RestoreCaught(rs)
            /\ UNCHANGED dataRoot
    /\ UNCHANGED << strays, swept, now, edits, ops, storeExists, store, cfgPrimary, cfgDir, cfgDefault, cs, last >>

\* ------------------------------------------------------------ specification
Next ==
    \/ Tick
    \/ EnvEdit
    \/ EnvEditConfig
    \/ Deliver
    \/ \E u \in Callers : RequireAdminReject(u)
    \/ CreateBegin
    \/ CreateFinish
    \/ CreateFail
    \/ CreateOutputFail
    \/ CreateReturn
    \/ List
    \/ \E f \in RequestNames : Download(f)
    \/ \E f \in RequestNames : Delete(f)
    \/ \E q \in RestoreInputs : RestoreBegin(q.filename, q.confirmRestore, q.clearData)
    \/ SnapshotClose
    \/ SnapshotFail
    \/ SnapshotOutputFail
    \/ RestoreClear
    \/ RestoreOpen
    \/ RestoreExtract
    \/ RestoreGuard
    \/ RestoreReturn

Spec == Init /\ [][Next]_vars

\* the module of the earlier revision
NextLegacy ==
    \/ Tick
    \/ EnvEdit
    \/ EnvEditConfig
    \/ Deliver
    \/ \E u \in Callers : RequireAdminReject(u)
    \/ LegacyCreateBegin
    \/ LegacyCreateFinish
    \/ CreateFail
    \/ CreateOutputFail
    \/ CreateReturn
    \/ List
    \/ \E f \in RequestNames : Download(f)
    \/ \E f \in RequestNames : Delete(f)
    \/ \E q \in RestoreInputs : RestoreBegin(q.filename, q.confirmRestore, q.clearData)
    \/ SnapshotClose
    \/ SnapshotFail
    \/ SnapshotOutputFail
    \/ LegacyRestoreClear
    \/ LegacyRestoreExtract
    \/ RestoreReturn

SpecLegacy == Init /\ [][NextLegacy]_vars

\* An archive of the Backup Store that no create wrote: restore takes any
\* file of the directory by its name and extracts whatever entries it holds.
ForeignName == <<"site-backup-", "upload">> \o ZIP_EXT

\* entry paths of such an archive: an ordinary one, an absolute one, one
\* below the Backup Store, and ones with '.' and '..' segments
ForeignPaths ==
    { A_TXT,
      <<"/">> \o A_TXT,
      BACKUPS_DIR \o <<"/">> \o ForeignName,
      <<".", "/">> \o BACKUPS_DIR \o <<"/">> \o ForeignName,
      <<".", "/">> \o BACKUPS_DIR \o <<"/", "old", "/", "f">>,
      USERS \o <<"/", ".", ".", "/">> \o A_TXT,
      <<".", ".", "/", "evil">> }

MaxForeignEntries == 2

ForeignEntries ==
    UNION { [1..n -> { FileEntry(p, V2) : p \in ForeignPaths }] : n \in 1..MaxForeignEntries }

InitForeign ==
    /\ now = 0
    /\ edits = 0
    /\ ops = 0
    /\ storeExists = TRUE
    /\ \E es \in ForeignEntries :
         store = [f \in {ForeignName} |->
                    [closed |-> TRUE, entries |-> es, origin |-> NoOrigin,
                     mtime |-> TimeOf(0 - 1, 0)]]
    /\ dataRoot = InitRoot(FileNode(DocB))
    /\ cfgPrimary = FileOf(DocA)
    /\ cfgDir = NoFile
    /\ cfgDefault = FileOf(DocDefault)
    /\ cs = CsIdle
    /\ rs = RsIdle
    /\ last = NoResponse
    /\ swept = NoSweep
    /\ strays = {}

NextForeign ==
    \/ Tick
    \/ \E q \in RestoreInputs : RestoreBegin(q.filename, q.confirmRestore, q.clearData)
    \/ SnapshotClose
    \/ SnapshotFail
    \/ SnapshotOutputFail
    \/ RestoreClear
    \/ RestoreOpen
    \/ RestoreExtract
    \/ RestoreGuard
    \/ RestoreReturn

SpecForeign == InitForeign /\ [][NextForeign]_vars

\* the Backup Catalog over the archives of earlier runs
NextCleanup ==
    \/ Elapse
    \/ Deliver
    \/ List
    \/ \E d \in DaysValues : Cleanup(d)

SpecCleanup == InitCleanup /\ [][NextCleanup]_vars

\* ================================================================== claims
cfgLocations == << dataRoot, cfgPrimary, cfgDir, cfgDefault >>

\* the restore handler has answered
RestoreAnswered == rs.pc = "done"
\* a step in which the restore handler takes up a request
RestoreArrives == rs.pc = "idle" /\ rs'.pc # "idle"
\* a step in which download or delete answers
CatalogAnswers == last.op = "none" /\ last'.op \in {"download", "delete"}

\* C1: after a restore that got past validation and resolve, whether it
\* succeeded or failed, cwd/config.yaml holds a non-empty document that
\* parses as a structured object.
C1_PrimaryValidAfterRestore ==
    (RestoreAnswered /\ rs.status \notin {400, 404})
        => (cfgPrimary.exists /\ IsValidConfig(cfgPrimary.data))

\* C2: the pre-restore snapshot is written and closed before a restore
\* deletes or overwrites anything in the Data Root or at a configuration
\* location, and a restore that ends without a closed snapshot (validation,
\* resolve or the snapshot failed) has answered with an error and left the
\* Data Root and the configuration locations as it found them.
C2_SnapshotBeforeChange ==
    /\ [](rs.snap = "closed" /\ rs.pre \in DOMAIN store => store[rs.pre].closed)
    /\ [](RestoreAnswered /\ rs.snap # "closed"
            => /\ rs.status \in {400, 404, 500}
               /\ dataRoot = rs.before.root
               /\ cfgPrimary = rs.before.primary
               /\ cfgDir = rs.before.dir)
    /\ [][ /\ RestoreArrives => UNCHANGED cfgLocations
           /\ (rs.pc # "idle" /\ cfgLocations' # cfgLocations) => rs.snap = "closed"
         ]_vars

C2_Witness ==
    /\ rs.pc = "open"
    /\ rs.req.clearData = "true"
    /\ rs.snap = "closed"
    /\ rs.pre \in DOMAIN store
    /\ store[rs.pre].closed
    /\ dataRoot # rs.before.root

\* C3: a restore with clearData === true never removes an immediate child of
\* the Data Root whose name is in the Reserved-Path Set.
C3_ReservedNeverRemoved ==
    [][ (rs.pc \notin {"idle", "done"} /\ rs.req.clearData = "true")
          => /\ storeExists => storeExists'
             /\ \A n \in TopNames \cap WHITELIST :
                   dataRoot[n].kind # "none" => dataRoot'[n].kind # "none"
      ]_vars

\* the filename contains '..', '/' or a backslash
HasTraversalChars(f) ==
    \E i \in 1..Len(f) :
        \/ f[i] \in {"/", "\\"}
        \/ i < Len(f) /\ f[i] = "." /\ f[i + 1] = "."

\* C4: for a filename containing '..', '/' or a backslash, delete, download
\* and restore answer 400 and change nothing on disk: no file is removed or
\* written, the Backup Store directory is not created, no snapshot is taken.
C4_UnsafeNameRejected ==
    [][ /\ (CatalogAnswers /\ HasTraversalChars(last'.filename))
            => (last'.status = 400 /\ UNCHANGED fsVars)
        /\ (RestoreArrives /\ HasTraversalChars(rs'.req.filename))
            => /\ rs'.pc = "done"
               /\ rs'.status = 400
               /\ rs'.snap = "none"
               /\ UNCHANGED fsVars
      ]_vars

C4_Witness ==
    /\ RestoreAnswered
    /\ rs.req.confirmRestore = CONFIRM_RESTORE
    /\ Includes(rs.req.filename, <<"\\">>)
    /\ rs.status = 400
    /\ ~storeExists

\* C5: a restore whose confirmRestore is not exactly 'CONFIRM_RESTORE'
\* answers 400, takes no pre-restore snapshot and changes nothing in the Data
\* Root, the Backup Store or the configuration locations.
C5_UnconfirmedRejected ==
    [][ (RestoreArrives /\ rs'.req.confirmRestore # CONFIRM_RESTORE)
          => /\ rs'.pc = "done"
             /\ rs'.status = 400
             /\ rs'.snap = "none"
             /\ rs'.pre = << >>
             /\ UNCHANGED fsVars
      ]_vars

C5_Witness ==
    /\ RestoreAnswered
    /\ rs.req.confirmRestore = "confirm_restore"
    /\ rs.req.filename \in DOMAIN store
    /\ store[rs.req.filename].closed
    /\ rs.status = 400

\* the config.yaml entries of the archive the restore has opened
ConfigEntries ==
    { i \in 1..Len(rs.files) :
        rs.files[i].path = CONFIG_YAML /\ rs.files[i].type = "File" }

\* C6: when the archive has a config.yaml entry that is non-empty and parses
\* as a structured document, cwd/config.yaml holds exactly that content after
\* a successful restore, and the bundled default is copied over
\* cwd/config.yaml only when cwd/config.yaml is not a valid document.
C6_ValidEntryBecomesPrimary ==
    /\ [](RestoreAnswered /\ rs.status = 200
            => \A i \in ConfigEntries :
                  IsValidConfig(rs.files[i].data) => cfgPrimary = FileOf(rs.files[i].data))
    /\ [][ (rs.pc = "guard" /\ cfgPrimary' # cfgPrimary)
              => ~(cfgPrimary.exists /\ IsValidConfig(cfgPrimary.data)) ]_vars

\* C7: when the archive's config.yaml entry is empty or unparseable and
\* cwd/config.yaml was valid before the restore, a restore that completes
\* leaves cwd/config.yaml with the content it had before the restore.
C7_InvalidEntryKeepsPrimary ==
    ( /\ RestoreAnswered
      /\ rs.status = 200
      /\ ConfigEntries # {}
      /\ \A i \in ConfigEntries : ~IsValidConfig(rs.files[i].data)
      /\ rs.before.primary.exists
      /\ IsValidConfig(rs.before.primary.data) )
        => cfgPrimary = rs.before.primary

\* C8: after a restore that reports success, cwd/config.yaml,
\* DATA_ROOT/config.yaml and cwd/config/config.yaml hold the same bytes.
C8_MirrorsIdentical ==
    (RestoreAnswered /\ rs.status = 200)
        => /\ cfgPrimary.exists
           /\ dataRoot[CONFIG_YAML] = FileNode(cfgPrimary.data)
           /\ cfgDir = cfgPrimary

\* C9: after create and then a successful restore of that archive without
\* clear mode, every non-reserved file that was in the Data Root when the
\* archive was written has the content it had then, whatever was changed in
\* between.
C9_RoundTrip ==
    ( /\ RestoreAnswered
      /\ rs.status = 200
      /\ rs.req.clearData # "true"
      /\ StartsWith(rs.req.filename, <<"site-backup-">>) )
        => \A n \in TopNames \ WHITELIST :
              /\ rs.origin[n].kind = "file" => dataRoot[n] = rs.origin[n]
              /\ rs.origin[n].kind = "dir" =>
                    \A sn \in SubNames :
                        rs.origin[n].sub[sn].exists =>
                            /\ dataRoot[n].kind = "dir"
                            /\ dataRoot[n].sub[sn] = rs.origin[n].sub[sn]

\* C10: every restore that reached the pre-restore snapshot step reports the
\* snapshot's filename, when it succeeds and when it fails in a later step.
C10_SnapshotNameReported ==
    (RestoreAnswered /\ rs.pre # << >>) => rs.preRestoreBackup = rs.pre

\* an operation in flight is writing the file of the Backup Store
WriterOf(f) ==
    \/ cs.pc = "writing" /\ cs.filename = f
    \/ rs.pc = "snapshot" /\ rs.pre = f

\* C11: when create or the pre-restore snapshot has failed after opening its
\* output file, the partial file is removed: list returns no file that is
\* incomplete and that no operation is still writing.
C11_NoPartialAfterFailure ==
    last.op = "list"
        => \A b \in last.backups :
              ~store[b.filename].closed => WriterOf(b.filename)

\* a step in which cleanup answers with success
CleanupAnswers == last.op = "none" /\ last'.op = "cleanup" /\ last'.status = 200
Archives(st) == { f \in DOMAIN st : EndsWith(f, ZIP_EXT) }

\* C12: cleanup with days = 0 deletes every archive of the Backup Store, and
\* cleanup with days = 36500 deletes none.
C12_CleanupZeroAndCentury ==
    [][ CleanupAnswers =>
          /\ last'.days = DaysOf(0) =>
                (Archives(store') = {} /\ last'.deletedCount = Cardinality(Archives(store)))
          /\ last'.days = DaysOf(36500) =>
                (store' = store /\ last'.deletedCount = 0)
      ]_vars

\* a step in which cleanup(30) answers with success and the cleanup before
\* it was a cleanup(30) that succeeded
SecondCleanup30 ==
    CleanupAnswers /\ ParseDays(last'.days) = 30 /\ swept.days = 30 /\ swept.ok

\* the archives that passed the age of 30 days between the reading of the
\* clock by the cleanup before and now
PassedThirtyDays ==
    { f \in Archives(store) :
        /\ Expired(TimeOf(0, now), store[f].mtime, 30)
        /\ ~Expired(TimeOf(0, swept.at), store[f].mtime, 30) }

\* C13 as stated: the second of two cleanup(30) calls in succession deletes
\* nothing and returns deletedCount = 0, whatever time elapsed in between.
C13_SecondCleanupDeletesNothing ==
    [][ SecondCleanup30 => (last'.deletedCount = 0 /\ store' = store) ]_vars

\* C13 amended: the second of two cleanup(30) calls in succession deletes
\* exactly the archives that passed the age of 30 days between the two
\* readings of the clock, and so nothing when none did (in particular when
\* both calls read the same time).
C13_SecondCleanupDeletesNewlyExpired ==
    [][ SecondCleanup30 =>
          /\ Archives(store) \ Archives(store') = PassedThirtyDays
          /\ last'.deletedCount = Cardinality(PassedThirtyDays)
          /\ PassedThirtyDays = {} => store' = store
      ]_vars

C13_Witness ==
    /\ last.op = "cleanup"
    /\ last.status = 200
    /\ ParseDays(last.days) = 30
    /\ last.deletedCount = 0
    /\ swept.days = 30
    /\ swept.ok
    /\ swept.again
    /\ \E f \in Archives(store) : store[f].mtime = TimeOf(0 - 30, 1)

\* the create handler has answered with success
CreateSucceeded == cs.pc = "done" /\ cs.status = 200
\* the entries of a list other than the one of filename f
OtherEntries(listing, f) == { b \in listing : b.filename # f }

\* C14: after a create that reports success (and with no other request
\* changing the Backup Store meanwhile), list returns the entries it returned
\* before the create and one new entry, which has the filename create
\* reported, and whose size is the length of the file and the size create
\* reported.
C14_CreateAddsOneEntry ==
    ( /\ CreateSucceeded
      /\ OtherEntries(ListBackups(store), cs.filename) = OtherEntries(cs.listed, cs.filename) )
        => /\ \A b \in cs.listed : b.filename # cs.filename
           /\ \E b \in ListBackups(store) :
                 /\ ListBackups(store) = cs.listed \cup {b}
                 /\ b.filename = cs.filename
                 /\ b.size = cs.size
                 /\ b.size = FileSize(store[cs.filename])

\* C15: every create and every restore, once started, ends with a response:
\* no request is left waiting for a promise that cannot settle any more, and
\* the process does not die of an error of the output stream.
C15_EveryRequestAnswered ==
    /\ cs.pc \notin {"hung", "crashed"}
    /\ rs.pc \notin {"hung", "crashed"}

\* a step in which a request is answered at once
AnswersAtOnce == last.op = "none" /\ last'.op # "none"
\* the answer is to a caller who is no administrator; the answers of the
\* handlers name no caller, requireAdmin having passed the request on
ToNonAdmin(response) ==
    "user" \in DOMAIN response /\ response.user # "admin"

\* C16: whatever the route (create, list, download, delete, restore,
\* cleanup), the request of a caller who is no administrator (no user, no
\* profile, profile.admin falsy) is answered 403 and changes nothing: no
\* handler runs, no file is written or removed, the Backup Store directory
\* is not created.
C16_NonAdminRejected ==
    [][ (AnswersAtOnce /\ ToNonAdmin(last'))
          => /\ last'.status = 403
             /\ last'.route \in Routes
             /\ UNCHANGED << fsVars, cs, rs, swept, strays >>
      ]_vars

C16_Witness ==
    /\ last.op = "requireAdmin"
    /\ last.user = "user"
    /\ last.route = "cleanup"
    /\ last.status = 403
    /\ ~storeExists

\* C17: a restore with a well-formed filename and the right confirmation
\* that names no archive of the Backup Store answers 404, takes no
\* pre-restore snapshot, and leaves the Data Root, the archives of the
\* Backup Store and the configuration locations as they were.
C17_MissingArchiveNotFound ==
    [][ ( /\ RestoreArrives
          /\ rs'.req.filename # << >>
          /\ ~HasTraversalChars(rs'.req.filename)
          /\ rs'.req.confirmRestore = CONFIRM_RESTORE
          /\ rs'.req.filename \notin DOMAIN store )
          => /\ rs'.pc = "done"
             /\ rs'.status = 404
             /\ rs'.snap = "none"
             /\ rs'.pre = << >>
             /\ UNCHANGED << store, dataRoot, cfgPrimary, cfgDir, cfgDefault >>
      ]_vars

C17_Witness ==
    /\ RestoreAnswered
    /\ rs.status = 404
    /\ rs.req.filename = MissingName
    /\ rs.req.confirmRestore = CONFIRM_RESTORE
    /\ DOMAIN store # {}
    /\ dataRoot = rs.before.root

\* the archive the restore extracted has an entry of this path
HasEntry(path) == \E i \in 1..Len(rs.files) : rs.files[i].path = path

\* C18: a restore whose clearData is not exactly true deletes nothing: every
\* file that was in the Data Root when the restore arrived and that has no
\* entry in the archive is there, with the same content, after the restore.
C18_OnlyClearModeDeletes ==
    (RestoreAnswered /\ rs.status = 200 /\ rs.req.clearData # "true")
        => \A n \in TopNames :
              /\ (rs.before.root[n].kind = "file" /\ ~HasEntry(n))
                    => dataRoot[n] = rs.before.root[n]
              /\ rs.before.root[n].kind = "dir"
                    => \A sn \in SubNames :
                          (rs.before.root[n].sub[sn].exists /\ ~HasEntry(n \o <<"/">> \o sn))
                             => /\ dataRoot[n].kind = "dir"
                                /\ dataRoot[n].sub[sn] = rs.before.root[n].sub[sn]

\* the immediate children of the Data Root that the clear step is to delete
Deletable(root) == { n \in TopNames : root[n].kind # "none" /\ n \notin WHITELIST }

\* C19: in the clear step of a clear-mode restore, the failure to delete one
\* entry does not end the restore: every other entry that is not reserved is
\* deleted, nothing else is touched, and the restore goes on to open the
\* archive for the extraction and the check of config.yaml.
C19_ClearFailureTolerated ==
    [][ (rs.pc = "clear" /\ rs'.pc # "clear" /\ rs.req.clearData = "true")
          => /\ rs'.pc = "open"
             /\ Cardinality({ n \in Deletable(dataRoot) : dataRoot'[n].kind # "none" }) <= 1
             /\ \A n \in TopNames :
                   dataRoot'[n] # dataRoot[n]
                      => (n \in Deletable(dataRoot) /\ dataRoot'[n] = NoNode)
      ]_vars

\* a clear-mode restore that could not delete a.txt and has deleted
\* _site_backups.bak, extracted the archive and checked config.yaml
C19_Witness ==
    /\ RestoreAnswered
    /\ rs.status = 200
    /\ rs.req.clearData = "true"
    /\ rs.before.root[A_TXT].kind = "file"
    /\ ~HasEntry(A_TXT)
    /\ dataRoot[A_TXT] = rs.before.root[A_TXT]
    /\ rs.before.root[BAK].kind = "file"
    /\ dataRoot[BAK].kind = "none"

\* the entries create would write from this Data Root and this cwd/config.yaml
CreateWouldWrite(root, primary) ==
    ReadQueue(root, Enumerate(root, RootOrder, CreateSkip)) \o
    (IF primary.exists /\ Len(Trim(primary.data)) > 0
     THEN << FileEntry(CONFIG_YAML, primary.data) >> ELSE << >>)

EntrySet(es) == { es[i] : i \in 1..Len(es) }

\* C20: the pre-restore snapshot has the entries create would write from the
\* same state: not the config.yaml mirror of the Data Root, and cwd/config.yaml
\* as its config.yaml entry.
C20_SnapshotIsWhatCreateWrites ==
    (rs.pc = "clear" /\ rs.pre \in DOMAIN store /\ store[rs.pre].closed)
        => EntrySet(store[rs.pre].entries) = EntrySet(CreateWouldWrite(dataRoot, cfgPrimary))

\* C21: the file of an archive whose creation has completed is never
\* changed: whatever create, restore, list, download or cleanup does, the
\* file keeps its content for as long as it is in the Backup Store.
C21_ArchivesImmutable ==
    [][ \A f \in DOMAIN store :
          (store[f].closed /\ f \in DOMAIN store') => store'[f] = store[f]
      ]_vars

\* C22: no partial archive is observable: list never returns a file that a
\* create or a pre-restore snapshot is still writing, download never serves
\* one, and restore never resolves one.
C22_NoPartialArchiveObservable ==
    /\ last.op = "list" => \A b \in last.backups : ~WriterOf(b.filename)
    /\ (last.op = "download" /\ last.status = 200) => ~WriterOf(last.filename)
    /\ rs.pc \notin {"idle", "done"} => ~WriterOf(rs.req.filename)

\* C23: extraction is confined.  Whatever the entry paths of the archive,
\* '..' segments and absolute paths included, a step of a restore's
\* extraction writes only below the Data Root and outside the Backup Store,
\* or to a configuration location: it never writes a file of the Backup
\* Store nor a file anywhere else.
C23_ExtractionConfined ==
    [][ (rs.pc = "extract" /\ rs' # rs) => UNCHANGED << store, strays >> ]_vars

\* the entry path names this file of the Data Root
NamesFile(path, segs) ==
    LET t == JoinDataRoot(path) IN t.up = 0 /\ t.segs = segs

\* the archive being restored has an entry for the file with this content
EntryHolds(segs, data) ==
    \E i \in 1..Len(rs.files) :
        NamesFile(rs.files[i].path, segs) /\ rs.files[i].data = data

\* the archive being restored contains the child: the file, or a file below it
ArchiveContains(n) ==
    \E i \in 1..Len(rs.files) :
        \/ NamesFile(rs.files[i].path, <<n>>)
        \/ \E sn \in SubNames : NamesFile(rs.files[i].path, <<n, sn>>)

\* C24: after a successful clear-mode restore in which no deletion failed,
\* every immediate child of the Data Root that is not reserved is one the
\* archive contains: what was there before the restore and is not in the
\* archive is gone, and every file present that is not reserved has the
\* content of its archive entry.
C24_ClearRestoreMirrorsArchive ==
    (RestoreAnswered /\ rs.status = 200 /\ rs.req.clearData = "true" /\ rs.failed = {})
        => \A n \in TopNames \ WHITELIST :
              /\ dataRoot[n].kind # "none" => ArchiveContains(n)
              /\ (rs.before.root[n].kind # "none" /\ ~ArchiveContains(n))
                    => dataRoot[n].kind = "none"
              /\ dataRoot[n].kind = "file" => EntryHolds(<<n>>, dataRoot[n].data)
              /\ dataRoot[n].kind = "dir"
                    => \A sn \in SubNames :
                          dataRoot[n].sub[sn].exists
                             => EntryHolds(<<n, sn>>, dataRoot[n].sub[sn].data)

\* a clear-mode restore without a failed deletion has answered 200: a.txt,
\* which the archive does not hold, is gone, and users is as archived
C24_Witness ==
    /\ RestoreAnswered
    /\ rs.status = 200
    /\ rs.req.clearData = "true"
    /\ rs.failed = {}
    /\ rs.before.root[A_TXT].kind = "file"
    /\ ~ArchiveContains(A_TXT)
    /\ dataRoot[A_TXT].kind = "none"
    /\ dataRoot[USERS].kind = "dir"
    /\ EntryHolds(<<USERS, <<"f">>>>, dataRoot[USERS].sub[<<"f">>].data)
====
